---- MODULE Spec2Model ----
(***************************************************************************)
(* Model of the Mazda OAuth Helper background service worker               *)
(* (custom_components/mazda_cs/chrome-extension/background.js).            *)
(*                                                                         *)
(* A JavaScript string is a sequence of one-character strings, so that     *)
(* prefix tests, splitting, base64 decoding, JSON parsing and URL query    *)
(* parsing/serialisation are computed character by character as the        *)
(* platform functions compute them.  A thrown exception is a result with   *)
(* ok = FALSE (or threw = TRUE).                                           *)
(***************************************************************************)
EXTENDS Integers, Sequences, FiniteSets, TLC

(***************************************************************************)
(* Characters                                                              *)
(***************************************************************************)

\* The printable ASCII characters, code 32 (space) to 126 (~), in code order
\* (code 96, the grave accent, is written "GRAVE").
Ascii ==
    <<" ", "!", "\"", "#", "$", "%", "&", "'", "(", ")", "*", "+", ",", "-", ".", "/",
      "0", "1", "2", "3", "4", "5", "6", "7", "8", "9", ":", ";", "<", "=", ">", "?",
      "@", "A", "B", "C", "D", "E", "F", "G", "H", "I", "J", "K", "L", "M", "N", "O",
      "P", "Q", "R", "S", "T", "U", "V", "W", "X", "Y", "Z", "[", "\\", "]", "^", "_",
      "GRAVE", "a", "b", "c", "d", "e", "f", "g", "h", "i", "j", "k", "l", "m", "n", "o",
      "p", "q", "r", "s", "t", "u", "v", "w", "x", "y", "z", "{", "|", "}", "~">>

\* The character of a byte (a code unit below 256).  Tab, line feed, form feed
\* and carriage return are themselves; every other C0 control is "CTL", 127 is
\* "DEL" and every byte from 128 is "HI": no function below tells two controls,
\* or two bytes from 128, apart.
ByteChar(n) ==
    IF n >= 32 /\ n <= 126 THEN Ascii[n - 31]
    ELSE IF n = 9 THEN "\t"
    ELSE IF n = 10 THEN "\n"
    ELSE IF n = 12 THEN "\f"
    ELSE IF n = 13 THEN "\r"
    ELSE IF n < 32 THEN "CTL"
    ELSE IF n = 127 THEN "DEL"
    ELSE "HI"

\* The code of a printable ASCII character.
CharCode(c) == 31 + (CHOOSE i \in 1..Len(Ascii) : Ascii[i] = c)

DigitChars == {"0", "1", "2", "3", "4", "5", "6", "7", "8", "9"}

UpperChars ==
    {"A", "B", "C", "D", "E", "F", "G", "H", "I", "J", "K", "L", "M",
     "N", "O", "P", "Q", "R", "S", "T", "U", "V", "W", "X", "Y", "Z"}

LowerChars ==
    {"a", "b", "c", "d", "e", "f", "g", "h", "i", "j", "k", "l", "m",
     "n", "o", "p", "q", "r", "s", "t", "u", "v", "w", "x", "y", "z"}

AlphaChars == UpperChars \cup LowerChars

HexDigits == <<"0", "1", "2", "3", "4", "5", "6", "7", "8", "9", "A", "B", "C", "D", "E", "F">>

HexChars == DigitChars \cup {"A", "B", "C", "D", "E", "F", "a", "b", "c", "d", "e", "f"}

HexVal(c) ==
    IF c \in DigitChars THEN CharCode(c) - 48
    ELSE IF c \in UpperChars THEN CharCode(c) - 55
    ELSE CharCode(c) - 87

\* JavaScript null (and undefined): no string, since every element of a string
\* is a one-character string.
Null == <<"<null>">>

(***************************************************************************)
(* String.prototype.startsWith and String.prototype.split                  *)
(***************************************************************************)

\* Variant of startsWith: compares ignoring ASCII case.
LowerOf(c) == IF c \in UpperChars THEN ByteChar(CharCode(c) + 32) ELSE c

startsWithIgnoreCase(s, p) ==
    /\ Len(s) >= Len(p)
    /\ \A i \in 1..Len(p) : LowerOf(s[i]) = LowerOf(p[i])

\* s.startsWith(p): exact comparison of the first Len(p) code units.
startsWith(s, p) ==
    /\ Len(s) >= Len(p)
    /\ \A i \in 1..Len(p) : s[i] = p[i]

\* Index of the first occurrence of a character of set cs in s from i on,
\* Len(s) + 1 when there is none.
RECURSIVE IndexOfAny(_, _, _)
IndexOfAny(s, cs, i) ==
    IF i > Len(s) THEN Len(s) + 1
    ELSE IF s[i] \in cs THEN i
    ELSE IndexOfAny(s, cs, i + 1)

\* s.split(sep) for a one-character separator: the sequence of the pieces
\* between separators; the empty string gives one empty piece.
RECURSIVE split(_, _)
split(s, sep) ==
    LET k == IndexOfAny(s, {sep}, 1)
    IN  IF k > Len(s) THEN <<s>>
        ELSE <<SubSeq(s, 1, k - 1)>> \o split(SubSeq(s, k + 1, Len(s)), sep)

(***************************************************************************)
(* atob: the forgiving-base64 decode of the HTML standard                  *)
(***************************************************************************)

B64Alphabet ==
    <<"A", "B", "C", "D", "E", "F", "G", "H", "I", "J", "K", "L", "M", "N", "O", "P",
      "Q", "R", "S", "T", "U", "V", "W", "X", "Y", "Z", "a", "b", "c", "d", "e", "f",
      "g", "h", "i", "j", "k", "l", "m", "n", "o", "p", "q", "r", "s", "t", "u", "v",
      "w", "x", "y", "z", "0", "1", "2", "3", "4", "5", "6", "7", "8", "9", "+", "/">>

B64Chars == {B64Alphabet[i] : i \in 1..Len(B64Alphabet)}

B64Val(c) == (CHOOSE i \in 1..Len(B64Alphabet) : B64Alphabet[i] = c) - 1

AsciiWhitespace == {"\t", "\n", "\f", "\r", " "}

\* The bytes of a sequence of base64 characters whose length is not 1 modulo 4:
\* three bytes for every four characters; a rest of two characters gives one
\* byte (the last 4 of their 12 bits are dropped), a rest of three gives two
\* (the last 2 of 18 bits are dropped).
RECURSIVE B64Bytes(_)
B64Bytes(d) ==
    IF Len(d) = 0 THEN <<>>
    ELSE IF Len(d) >= 4 THEN
        LET v == ((B64Val(d[1]) * 64 + B64Val(d[2])) * 64 + B64Val(d[3])) * 64 + B64Val(d[4])
        IN  <<ByteChar(v \div 65536), ByteChar((v \div 256) % 256), ByteChar(v % 256)>>
                \o B64Bytes(SubSeq(d, 5, Len(d)))
    ELSE IF Len(d) = 3 THEN
        LET v == (B64Val(d[1]) * 64 + B64Val(d[2])) * 64 + B64Val(d[3])
        IN  <<ByteChar(v \div 1024), ByteChar((v \div 4) % 256)>>
    ELSE
        LET v == B64Val(d[1]) * 64 + B64Val(d[2])
        IN  <<ByteChar(v \div 16)>>

\* Base64url decoding (RFC 4648 section 5, padding optional), the decoding a
\* JWT segment is defined by: "-" stands for "+" and "_" for "/".
UrlToStd(c) == IF c = "-" THEN "+" ELSE IF c = "_" THEN "/" ELSE c

base64urlDecode(data) ==
    LET d0 == [i \in 1..Len(data) |-> UrlToStd(data[i])]
        d1 == SelectSeq(d0, LAMBDA c : c \notin AsciiWhitespace)
        n1 == Len(d1)
        d2 == IF n1 > 0 /\ n1 % 4 = 0 /\ d1[n1] = "="
              THEN IF d1[n1 - 1] = "=" THEN SubSeq(d1, 1, n1 - 2) ELSE SubSeq(d1, 1, n1 - 1)
              ELSE d1
    IN  IF Len(d2) % 4 = 1 \/ \E i \in 1..Len(d2) : d2[i] \notin B64Chars
        THEN [v |-> <<>>, ok |-> FALSE]
        ELSE [v |-> B64Bytes(d2), ok |-> TRUE]

\* atob(data): ASCII whitespace is removed; when the length is then a multiple
\* of 4, one or two trailing "=" are removed; a length of 1 modulo 4, or any
\* character outside the base64 alphabet ("-" and "_" among them), throws
\* InvalidCharacterError (ok = FALSE).
atob(data) ==
    LET d1 == SelectSeq(data, LAMBDA c : c \notin AsciiWhitespace)
        n1 == Len(d1)
        d2 == IF n1 > 0 /\ n1 % 4 = 0 /\ d1[n1] = "="
              THEN IF d1[n1 - 1] = "=" THEN SubSeq(d1, 1, n1 - 2) ELSE SubSeq(d1, 1, n1 - 1)
              ELSE d1
    IN  IF Len(d2) % 4 = 1 \/ \E i \in 1..Len(d2) : d2[i] \notin B64Chars
        THEN [v |-> <<>>, ok |-> FALSE]
        ELSE [v |-> B64Bytes(d2), ok |-> TRUE]

(***************************************************************************)
(* JSON.parse                                                              *)
(***************************************************************************)

\* A parsed JSON value, as far as the classifier reads it: its type t, whether
\* it is falsy in JavaScript (null, false, a zero number, the empty string)
\* and, for an object, typeof of its member flow_id ("undefined" when it has
\* none, and for every value that is no object).
JsonValue(t, falsy, flowType) == [t |-> t, falsy |-> falsy, flow_id |-> flowType]

\* typeof of a JSON value: null and arrays are objects.
TypeOf(v) == IF v.t \in {"null", "array", "object"} THEN "object" ELSE v.t

JsonFail == [v |-> JsonValue("none", TRUE, "undefined"), ok |-> FALSE, pos |-> 0, str |-> <<>>]

JsonOk(pos, v) == [v |-> v, ok |-> TRUE, pos |-> pos, str |-> <<>>]

JsonWhitespace == {"\t", "\n", "\r", " "}

JsonControls == {"CTL", "\t", "\n", "\f", "\r"}

\* The character a backslash escape stands for.
EscapeChar(c) ==
    CASE c = "\"" -> "\""
      [] c = "\\" -> "\\"
      [] c = "/" -> "/"
      [] c = "b" -> "CTL"
      [] c = "f" -> "\f"
      [] c = "n" -> "\n"
      [] c = "r" -> "\r"
      [] c = "t" -> "\t"

RECURSIVE SkipWs(_, _)
SkipWs(s, i) == IF i <= Len(s) /\ s[i] \in JsonWhitespace THEN SkipWs(s, i + 1) ELSE i

\* The first index from i on that holds no digit.
RECURSIVE SkipDigits(_, _)
SkipDigits(s, i) == IF i <= Len(s) /\ s[i] \in DigitChars THEN SkipDigits(s, i + 1) ELSE i

\* A string's characters from i (just after the opening quote) to the closing
\* quote: escapes are resolved, a raw control character or an unknown escape
\* is a SyntaxError.
RECURSIVE ScanString(_, _, _)
ScanString(s, i, acc) ==
    IF i > Len(s) THEN JsonFail
    ELSE IF s[i] = "\"" THEN
        [v |-> JsonValue("string", acc = <<>>, "undefined"), ok |-> TRUE, pos |-> i + 1,
         str |-> acc]
    ELSE IF s[i] = "\\" THEN
        IF i + 1 > Len(s) THEN JsonFail
        ELSE IF s[i + 1] \in {"\"", "\\", "/", "b", "f", "n", "r", "t"} THEN
            ScanString(s, i + 2, Append(acc, EscapeChar(s[i + 1])))
        ELSE IF /\ s[i + 1] = "u"
                /\ i + 5 <= Len(s)
                /\ \A k \in 2..5 : s[i + k] \in HexChars THEN
            LET hi == HexVal(s[i + 2]) * 16 + HexVal(s[i + 3])
                lo == HexVal(s[i + 4]) * 16 + HexVal(s[i + 5])
            IN  ScanString(s, i + 6, Append(acc, IF hi = 0 THEN ByteChar(lo) ELSE "HI"))
        ELSE JsonFail
    ELSE IF s[i] \in JsonControls THEN JsonFail
    ELSE ScanString(s, i + 1, Append(acc, s[i]))

\* A number from i: -? (0 | [1-9][0-9]*) (. [0-9]+)? ([eE] [+-]? [0-9]+)?
ParseNumber(s, i) ==
    LET i1 == IF i <= Len(s) /\ s[i] = "-" THEN i + 1 ELSE i
        i2 == IF i1 <= Len(s) /\ s[i1] = "0" THEN i1 + 1 ELSE SkipDigits(s, i1)
        hasFrac == i2 <= Len(s) /\ s[i2] = "."
        i3 == IF hasFrac THEN SkipDigits(s, i2 + 1) ELSE i2
        hasExp == i3 <= Len(s) /\ s[i3] \in {"e", "E"}
        i4 == IF hasExp /\ i3 + 1 <= Len(s) /\ s[i3 + 1] \in {"+", "-"} THEN i3 + 2 ELSE i3 + 1
        i5 == IF hasExp THEN SkipDigits(s, i4) ELSE i3
        zero == \A k \in i1..(i3 - 1) : s[k] \in {"0", "."}
    IN  IF i2 = i1 \/ (hasFrac /\ i3 = i2 + 1) \/ (hasExp /\ i5 = i4) THEN JsonFail
        ELSE JsonOk(i5, JsonValue("number", zero, "undefined"))

ParseLiteral(s, i, word, v) ==
    IF startsWith(SubSeq(s, i, Len(s)), word) THEN JsonOk(i + Len(word), v) ELSE JsonFail

RECURSIVE ParseValue(_, _)
RECURSIVE ParseElements(_, _)
RECURSIVE ParseMembers(_, _, _)

\* The elements of an array from i, to the closing bracket.
ParseElements(s, i) ==
    LET e == ParseValue(s, i)
        j == SkipWs(s, e.pos)
    IN  IF ~e.ok \/ j > Len(s) THEN JsonFail
        ELSE IF s[j] = "," THEN ParseElements(s, j + 1)
        ELSE IF s[j] = "]" THEN JsonOk(j + 1, JsonValue("array", FALSE, "undefined"))
        ELSE JsonFail

\* The members of an object from i, to the closing brace; flowType is typeof
\* of the last member named flow_id so far (a later duplicate key wins).
ParseMembers(s, i, flowType) ==
    LET k0 == SkipWs(s, i)
        key == IF k0 <= Len(s) /\ s[k0] = "\"" THEN ScanString(s, k0 + 1, <<>>) ELSE JsonFail
        c == SkipWs(s, key.pos)
        val == IF key.ok /\ c <= Len(s) /\ s[c] = ":" THEN ParseValue(s, c + 1) ELSE JsonFail
        j == SkipWs(s, val.pos)
        ft == IF key.str = <<"f", "l", "o", "w", "_", "i", "d">> THEN TypeOf(val.v) ELSE flowType
    IN  IF ~val.ok \/ j > Len(s) THEN JsonFail
        ELSE IF s[j] = "," THEN ParseMembers(s, j + 1, ft)
        ELSE IF s[j] = "}" THEN JsonOk(j + 1, JsonValue("object", FALSE, ft))
        ELSE JsonFail

\* One JSON value from i, leading whitespace skipped.
ParseValue(s, i) ==
    LET j == SkipWs(s, i)
    IN  IF j > Len(s) THEN JsonFail
        ELSE IF s[j] = "{" THEN
            LET k == SkipWs(s, j + 1)
            IN  IF k <= Len(s) /\ s[k] = "}"
                THEN JsonOk(k + 1, JsonValue("object", FALSE, "undefined"))
                ELSE ParseMembers(s, j + 1, "undefined")
        ELSE IF s[j] = "[" THEN
            LET k == SkipWs(s, j + 1)
            IN  IF k <= Len(s) /\ s[k] = "]"
                THEN JsonOk(k + 1, JsonValue("array", FALSE, "undefined"))
                ELSE ParseElements(s, j + 1)
        ELSE IF s[j] = "\"" THEN ScanString(s, j + 1, <<>>)
        ELSE IF s[j] = "t" THEN
            ParseLiteral(s, j, <<"t", "r", "u", "e">>, JsonValue("boolean", FALSE, "undefined"))
        ELSE IF s[j] = "f" THEN
            ParseLiteral(s, j, <<"f", "a", "l", "s", "e">>, JsonValue("boolean", TRUE, "undefined"))
        ELSE IF s[j] = "n" THEN
            ParseLiteral(s, j, <<"n", "u", "l", "l">>, JsonValue("null", TRUE, "undefined"))
        ELSE IF s[j] = "-" \/ s[j] \in DigitChars THEN ParseNumber(s, j)
        ELSE JsonFail

\* JSON.parse(text): the value when text is exactly one JSON value between
\* optional whitespace; a SyntaxError (ok = FALSE) otherwise.
JSONparse(text) ==
    LET r == ParseValue(text, 1)
    IN  IF r.ok /\ SkipWs(text, r.pos) = Len(text) + 1
        THEN [v |-> r.v, ok |-> TRUE]
        ELSE [v |-> JsonFail.v, ok |-> FALSE]

(***************************************************************************)
(* new URL(url), URLSearchParams and URL.prototype.toString (WHATWG URL)    *)
(***************************************************************************)

\* Percent-decoding: "%" and two hexadecimal digits are the byte they name;
\* any other character, a lone "%" included, is itself.
RECURSIVE percentDecode(_)
percentDecode(s) ==
    IF s = <<>> THEN <<>>
    ELSE IF s[1] = "%" /\ Len(s) >= 3 /\ s[2] \in HexChars /\ s[3] \in HexChars
    THEN <<ByteChar(HexVal(s[2]) * 16 + HexVal(s[3]))>> \o percentDecode(SubSeq(s, 4, Len(s)))
    ELSE <<s[1]>> \o percentDecode(Tail(s))

\* One name-value pair of the application/x-www-form-urlencoded parser: the
\* piece is cut at its first "=", "+" becomes a space, both halves are
\* percent-decoded.
PlusToSpace(s) == [i \in 1..Len(s) |-> IF s[i] = "+" THEN " " ELSE s[i]]

parsePair(piece) ==
    LET k == IndexOfAny(piece, {"="}, 1)
        name == SubSeq(piece, 1, k - 1)
        value == IF k > Len(piece) THEN <<>> ELSE SubSeq(piece, k + 1, Len(piece))
    IN  [name |-> percentDecode(PlusToSpace(name)), value |-> percentDecode(PlusToSpace(value))]

\* The application/x-www-form-urlencoded parser: the query is cut at every "&",
\* empty pieces are skipped.
parseQuery(query) ==
    LET pieces == SelectSeq(split(query, "&"), LAMBDA q : q # <<>>)
    IN  [i \in 1..Len(pieces) |-> parsePair(pieces[i])]

\* The opaque-host parser rejects a host that holds a forbidden host code point.
ForbiddenHostChars ==
    {"CTL", "\t", "\n", "\r", " ", "#", "/", ":", "<", ">", "?", "@", "[", "\\", "]", "^", "|"}

SchemeChars == AlphaChars \cup DigitChars \cup {"+", "-", "."}

\* The characters new URL() strips from both ends (C0 controls and space) ...
RECURSIVE TrimC0(_)
TrimC0(s) ==
    LET c0 == {"CTL", "\t", "\n", "\f", "\r", " "}
    IN  IF s = <<>> THEN s
        ELSE IF s[1] \in c0 THEN TrimC0(Tail(s))
        ELSE IF s[Len(s)] \in c0 THEN TrimC0(SubSeq(s, 1, Len(s) - 1))
        ELSE s

\* ... and then removes everywhere (tab and newlines).
StripTabNewline(s) == SelectSeq(TrimC0(s), LAMBDA c : c \notin {"\t", "\n", "\r"})

\* The authority (between "//" and the first "/", "?" or "#") of a URL whose
\* scheme is not special: credentials end at the last "@", the host ends at the
\* first ":" after them, the rest is the port.  Failure: credentials or a port
\* separator with an empty host, a forbidden host code point, a port that is no
\* number or exceeds 65535.  (No recognised URL has a host that starts with
\* "[", so a bracket is always a forbidden host code point here.)
RECURSIVE LastIndexOf(_, _, _)
LastIndexOf(s, c, i) ==
    IF i = 0 THEN 0 ELSE IF s[i] = c THEN i ELSE LastIndexOf(s, c, i - 1)

RECURSIVE DecimalValue(_, _)
DecimalValue(s, acc) ==
    IF s = <<>> THEN acc
    ELSE IF acc > 65535 THEN acc
    ELSE DecimalValue(Tail(s), acc * 10 + HexVal(s[1]))

authorityOk(authority) ==
    LET at == LastIndexOf(authority, "@", Len(authority))
        hostport == SubSeq(authority, at + 1, Len(authority))
        colon == IndexOfAny(hostport, {":"}, 1)
        host == SubSeq(hostport, 1, colon - 1)
        port == SubSeq(hostport, colon + 1, Len(hostport))
    IN  /\ at > 0 => hostport # <<>>
        /\ colon <= Len(hostport) => host # <<>>
        /\ \A i \in 1..Len(host) : host[i] \notin ForbiddenHostChars
        /\ \A i \in 1..Len(port) : port[i] \in DigitChars
        /\ DecimalValue(port, 0) <= 65535

URLFail == [ok |-> FALSE, searchParams |-> <<>>]

\* new URL(url) with no base, for a url whose scheme is not special (http,
\* https, ws, wss, ftp, file): ok = FALSE is the TypeError the constructor
\* throws.  The scheme is a letter followed by letters, digits, "+", "-" and "."
\* up to the first ":"; what follows "//" is the authority; the query runs from
\* the first "?" to the first "#" after it.  The query state percent-encodes
\* some characters that the form-urlencoded parser decodes again; they are
\* kept as they are.
NewURL(url) ==
    LET input == StripTabNewline(url)
        colon == IndexOfAny(input, {":"}, 1)
        rest == SubSeq(input, colon + 1, Len(input))
        hasAuthority == startsWith(rest, <<"/", "/">>)
        afterSlashes == SubSeq(rest, 3, Len(rest))
        authEnd == IndexOfAny(afterSlashes, {"/", "?", "#"}, 1)
        q == IndexOfAny(rest, {"?", "#"}, 1)
        afterQ == SubSeq(rest, q + 1, Len(rest))
        h == IndexOfAny(afterQ, {"#"}, 1)
        query == IF q <= Len(rest) /\ rest[q] = "?" THEN SubSeq(afterQ, 1, h - 1) ELSE <<>>
    IN  IF \/ colon > Len(input)
           \/ colon = 1
           \/ input[1] \notin AlphaChars
           \/ \E i \in 1..(colon - 1) : input[i] \notin SchemeChars
        THEN URLFail
        ELSE IF hasAuthority /\ ~authorityOk(SubSeq(afterSlashes, 1, authEnd - 1))
        THEN URLFail
        ELSE [ok |-> TRUE, searchParams |-> parseQuery(query)]

\* searchParams.get(name): the value of the first pair of that name, null when
\* there is none.
searchParamsGet(params, name) ==
    IF \E i \in 1..Len(params) : params[i].name = name
    THEN params[CHOOSE i \in 1..Len(params) :
                    /\ params[i].name = name
                    /\ \A j \in 1..(i - 1) : params[j].name # name].value
    ELSE Null

\* searchParams.set(name, value): the first pair of that name takes the value
\* and the others of that name are removed; a new pair is appended otherwise.
searchParamsSet(params, name, value) ==
    IF \E i \in 1..Len(params) : params[i].name = name
    THEN LET first == CHOOSE i \in 1..Len(params) :
                          /\ params[i].name = name
                          /\ \A j \in 1..(i - 1) : params[j].name # name
             kept == {i \in 1..Len(params) : i = first \/ params[i].name # name}
             ix == [k \in 1..Cardinality(kept) |->
                        CHOOSE i \in kept : Cardinality({j \in kept : j < i}) = k - 1]
         IN  [k \in 1..Cardinality(kept) |->
                  IF ix[k] = first THEN [name |-> name, value |-> value] ELSE params[ix[k]]]
    ELSE Append(params, [name |-> name, value |-> value])

\* The application/x-www-form-urlencoded byte serialiser: letters, digits, "*",
\* "-", "." and "_" are kept, a space is "+", every other byte is "%" and its
\* two upper-case hexadecimal digits.
UrlencodedKeep == AlphaChars \cup DigitChars \cup {"*", "-", ".", "_"}

ByteOf(c) ==
    CASE c = "\t" -> 9
      [] c = "\n" -> 10
      [] c = "\f" -> 12
      [] c = "\r" -> 13
      [] OTHER -> CharCode(c)

RECURSIVE urlencode(_)
urlencode(s) ==
    IF s = <<>> THEN <<>>
    ELSE (IF s[1] \in UrlencodedKeep THEN <<s[1]>>
          ELSE IF s[1] = " " THEN <<"+">>
          ELSE <<"%", HexDigits[(ByteOf(s[1]) \div 16) + 1], HexDigits[(ByteOf(s[1]) % 16) + 1]>>)
         \o urlencode(Tail(s))

\* The application/x-www-form-urlencoded serialiser: name=value joined by "&".
RECURSIVE serializeParams(_)
serializeParams(params) ==
    IF params = <<>> THEN <<>>
    ELSE urlencode(params[1].name) \o <<"=">> \o urlencode(params[1].value)
         \o (IF Len(params) > 1 THEN <<"&">> ELSE <<>>)
         \o serializeParams(Tail(params))

\* url.toString() of a URL that had no query and whose searchParams were set:
\* the URL, "?" and the serialised pairs (no "?" when there are no pairs).
urlToString(base, params) ==
    IF params = <<>> THEN base ELSE base \o <<"?">> \o serializeParams(params)

(***************************************************************************)
(* background.js: the classifier                                           *)
(***************************************************************************)

\* A JavaScript string or null is truthy when it is a non-empty string.
Truthy(s) == s # Null /\ s # <<>>

\* x || "": x when truthy, the empty string otherwise.
OrEmpty(s) == IF Truthy(s) THEN s ELSE <<>>

\* What a call of isHomeAssistantFlow gives: it threw, or it returned value
\* ("true", "false", or the falsy payload itself: "null", "0", "").
Returned(value) == [value |-> value, threw |-> FALSE, truthy |-> value = "true"]

Thrown == [value |-> "exception", threw |-> TRUE, truthy |-> FALSE]

\* The falsy payload that `payload && ...` evaluates to.
FalsyPayload(v) ==
    CASE v.t = "null" -> "null"
      [] v.t = "boolean" -> "false"
      [] v.t = "number" -> "0"
      [] v.t = "string" -> ""

\* Variant of isHomeAssistantFlow: any state at all is a Home Assistant flow.
isHomeAssistantFlowAnyState(state) ==
    IF ~Truthy(state) THEN Returned("false") ELSE Returned("true")

\* Variant of isHomeAssistantFlow: the decoding is not guarded by try/catch.
isHomeAssistantFlowNoCatch(state) ==
    IF ~Truthy(state) THEN Returned("false")
    ELSE LET parts == split(state, ".")
             decoded == atob(parts[2])
             payload == JSONparse(decoded.v)
         IN  IF Len(parts) # 3 THEN Returned("false")
             ELSE IF ~decoded.ok \/ ~payload.ok THEN Thrown
             ELSE IF payload.v.falsy THEN Returned(FalsyPayload(payload.v))
             ELSE IF payload.v.flow_id = "string" THEN Returned("true")
             ELSE Returned("false")

\* isHomeAssistantFlow(state): false for no state; false unless the state has
\* three parts between dots; the middle part through atob and JSON.parse, either
\* of which may throw into the catch, which returns false; then
\* payload && typeof payload.flow_id === "string".
isHomeAssistantFlow(state) ==
    IF ~Truthy(state) THEN Returned("false")
    ELSE LET parts == split(state, ".")
             decoded == atob(parts[2])
             payload == JSONparse(decoded.v)
         IN  IF Len(parts) # 3 THEN Returned("false")
             ELSE IF ~decoded.ok \/ ~payload.ok THEN Returned("false")
             ELSE IF payload.v.falsy THEN Returned(FalsyPayload(payload.v))
             ELSE IF payload.v.flow_id = "string" THEN Returned("true")
             ELSE Returned("false")

(***************************************************************************)
(* background.js: the two listeners                                        *)
(***************************************************************************)

\* msauth.com.mazdausa.mazdaiphone://auth
IOS_REDIRECT_PREFIX ==
    <<"m", "s", "a", "u", "t", "h", ".", "c", "o", "m", ".", "m", "a", "z", "d", "a", "u", "s",
      "a", ".", "m", "a", "z", "d", "a", "i", "p", "h", "o", "n", "e", ":", "/", "/", "a", "u",
      "t", "h">>

\* https://my.home-assistant.io/redirect/oauth
HA_OAUTH_URL ==
    <<"h", "t", "t", "p", "s", ":", "/", "/", "m", "y", ".", "h", "o", "m", "e", "-", "a", "s",
      "s", "i", "s", "t", "a", "n", "t", ".", "i", "o", "/", "r", "e", "d", "i", "r", "e", "c",
      "t", "/", "o", "a", "u", "t", "h">>

\* chrome.runtime.getURL(path): the path under the extension's origin, whose
\* host is the identifier the browser gave the extension.
EXTENSION_ORIGIN ==
    <<"c", "h", "r", "o", "m", "e", "-", "e", "x", "t", "e", "n", "s", "i", "o", "n", ":", "/",
      "/", "m", "a", "z", "d", "a", "o", "a", "u", "t", "h", "h", "e", "l", "p", "e", "r", "/">>

runtimeGetURL(path) == EXTENSION_ORIGIN \o path

CAPTURE_PAGE ==
    <<"c", "a", "p", "t", "u", "r", "e", ".", "h", "t", "m", "l">>

\* The badge: the text is the one character U+2713 (check mark).
BADGE_TEXT == <<"U+2713">>

BADGE_COLOR ==
    <<"#", "4", "C", "A", "F", "5", "0">>

P_CODE ==
    <<"c", "o", "d", "e">>

P_STATE ==
    <<"s", "t", "a", "t", "e">>

P_ERROR ==
    <<"e", "r", "r", "o", "r">>

P_ERROR_DESCRIPTION ==
    <<"e", "r", "r", "o", "r", "_", "d", "e", "s", "c", "r", "i", "p", "t", "i", "o", "n">>

\* The calls a listener makes into the browser, in the order it makes them.
tabsUpdate(tabId, url) == [tabId |-> tabId, api |-> "tabs.update", arg |-> url]

setBadgeText(text) == [tabId |-> 0, api |-> "action.setBadgeText", arg |-> text]

setBadgeBackgroundColor(color) ==
    [tabId |-> 0, api |-> "action.setBadgeBackgroundColor", arg |-> color]

\* What one run of a listener did: whether the URL matched the prefix, whether
\* the run ended in an exception (a rejected promise of the async listener that
\* nothing handles), and the browser calls made before that.
Outcome(matched, threw, calls) == [threw |-> threw, matched |-> matched, calls |-> calls]

\* Variant of haUrlOnNavigate: the state is left out.
haUrlOnNavigateNoState(code, state) ==
    urlToString(HA_OAUTH_URL, searchParamsSet(<<>>, P_CODE, code))

\* onBeforeNavigate: the Home Assistant OAuth endpoint with code and state set.
haUrlOnNavigate(code, state) ==
    urlToString(HA_OAUTH_URL,
                searchParamsSet(searchParamsSet(<<>>, P_CODE, code), P_STATE, state))

\* onErrorOccurred: the Home Assistant OAuth endpoint with code and state set.
haUrlOnError(code, state) ==
    urlToString(HA_OAUTH_URL,
                searchParamsSet(searchParamsSet(<<>>, P_CODE, code), P_STATE, state))

\* Variant of captureUrlOnNavigate: error and error_description are left out.
captureUrlOnNavigateNoError(urlObj, code, state) ==
    urlToString(runtimeGetURL(CAPTURE_PAGE),
        searchParamsSet(searchParamsSet(<<>>, P_CODE, OrEmpty(code)), P_STATE, OrEmpty(state)))

\* onBeforeNavigate: the capture page with code, state, error and
\* error_description, each the empty string when absent.
captureUrlOnNavigate(urlObj, code, state) ==
    urlToString(runtimeGetURL(CAPTURE_PAGE),
        searchParamsSet(
            searchParamsSet(
                searchParamsSet(
                    searchParamsSet(<<>>, P_CODE, OrEmpty(code)),
                    P_STATE, OrEmpty(state)),
                P_ERROR, OrEmpty(searchParamsGet(urlObj.searchParams, P_ERROR))),
            P_ERROR_DESCRIPTION,
            OrEmpty(searchParamsGet(urlObj.searchParams, P_ERROR_DESCRIPTION))))

\* Variant of captureUrlOnError: the error parameters are forwarded as by the
\* other listener.
captureUrlOnErrorWithError(urlObj, code) ==
    urlToString(runtimeGetURL(CAPTURE_PAGE),
        searchParamsSet(
            searchParamsSet(
                searchParamsSet(<<>>, P_CODE, OrEmpty(code)),
                P_ERROR, OrEmpty(searchParamsGet(urlObj.searchParams, P_ERROR))),
            P_ERROR_DESCRIPTION,
            OrEmpty(searchParamsGet(urlObj.searchParams, P_ERROR_DESCRIPTION))))

\* onErrorOccurred: the capture page with code only.
captureUrlOnError(urlObj, code) ==
    urlToString(runtimeGetURL(CAPTURE_PAGE), searchParamsSet(<<>>, P_CODE, OrEmpty(code)))

\* Variant of badgeCallsOnNavigate: another colour.
badgeCallsOnNavigateRed(code) ==
    IF Truthy(code)
    THEN <<setBadgeText(BADGE_TEXT), setBadgeBackgroundColor(<<"#", "F", "4", "4", "3", "3", "6">>)>>
    ELSE <<>>

\* onBeforeNavigate: if (code) { setBadgeText; setBadgeBackgroundColor }
badgeCallsOnNavigate(code) ==
    IF Truthy(code)
    THEN <<setBadgeText(BADGE_TEXT), setBadgeBackgroundColor(BADGE_COLOR)>>
    ELSE <<>>

\* Variant of badgeCallsOnError: an event without code clears the badge text.
badgeCallsOnErrorClear(code) ==
    IF Truthy(code)
    THEN <<setBadgeText(BADGE_TEXT), setBadgeBackgroundColor(BADGE_COLOR)>>
    ELSE <<setBadgeText(<<>>)>>

\* Variant of badgeCallsOnError: the badge is left alone.
badgeCallsOnErrorNever(code) == <<>>

\* onErrorOccurred: if (code) { setBadgeText; setBadgeBackgroundColor }
badgeCallsOnError(code) ==
    IF Truthy(code)
    THEN <<setBadgeText(BADGE_TEXT), setBadgeBackgroundColor(BADGE_COLOR)>>
    ELSE <<>>

\* Variant of onBeforeNavigateListener: the tab is sent to the capture page only
\* inside if (code).
onBeforeNavigateListenerUpdateInsideIf(details) ==
    LET url == details.url
        urlObj == NewURL(url)
        code == searchParamsGet(urlObj.searchParams, P_CODE)
        state == searchParamsGet(urlObj.searchParams, P_STATE)
        ha == isHomeAssistantFlow(state)
    IN  IF ~startsWith(url, IOS_REDIRECT_PREFIX) THEN Outcome(FALSE, FALSE, <<>>)
        ELSE IF ~urlObj.ok THEN Outcome(TRUE, TRUE, <<>>)
        ELSE IF Truthy(code) /\ ha.threw THEN Outcome(TRUE, TRUE, <<>>)
        ELSE IF Truthy(code) /\ ha.truthy
        THEN Outcome(TRUE, FALSE, <<tabsUpdate(details.tabId, haUrlOnNavigate(code, state))>>)
        ELSE IF Truthy(code)
        THEN Outcome(TRUE, FALSE,
                     badgeCallsOnNavigate(code)
                        \o <<tabsUpdate(details.tabId, captureUrlOnNavigate(urlObj, code, state))>>)
        ELSE Outcome(TRUE, FALSE, <<>>)

\* The chrome.webNavigation.onBeforeNavigate listener.  A URL that does not
\* start with the prefix is left alone.  Otherwise new URL(url) may throw,
\* which ends the run; code and state are read; isHomeAssistantFlow is called
\* only when code is truthy; the tab goes to Home Assistant (and the listener
\* returns) or, after the badge, to the capture page.
onBeforeNavigateListener(details) ==
    LET url == details.url
        urlObj == NewURL(url)
        code == searchParamsGet(urlObj.searchParams, P_CODE)
        state == searchParamsGet(urlObj.searchParams, P_STATE)
        ha == isHomeAssistantFlow(state)
    IN  IF ~startsWith(url, IOS_REDIRECT_PREFIX) THEN Outcome(FALSE, FALSE, <<>>)
        ELSE IF ~urlObj.ok THEN Outcome(TRUE, TRUE, <<>>)
        ELSE IF Truthy(code) /\ ha.threw THEN Outcome(TRUE, TRUE, <<>>)
        ELSE IF Truthy(code) /\ ha.truthy
        THEN Outcome(TRUE, FALSE, <<tabsUpdate(details.tabId, haUrlOnNavigate(code, state))>>)
        ELSE Outcome(TRUE, FALSE,
                     badgeCallsOnNavigate(code)
                        \o <<tabsUpdate(details.tabId, captureUrlOnNavigate(urlObj, code, state))>>)

\* Variant of onErrorOccurredListener: the state alone decides for Home
\* Assistant, whether or not there is a code.
onErrorOccurredListenerStateDecides(details) ==
    LET urlObj == NewURL(details.url)
        code == searchParamsGet(urlObj.searchParams, P_CODE)
        state == searchParamsGet(urlObj.searchParams, P_STATE)
        ha == isHomeAssistantFlow(state)
    IN  IF ~(Truthy(details.url) /\ startsWith(details.url, IOS_REDIRECT_PREFIX))
        THEN Outcome(FALSE, FALSE, <<>>)
        ELSE IF ~urlObj.ok THEN Outcome(TRUE, TRUE, <<>>)
        ELSE IF ha.threw THEN Outcome(TRUE, TRUE, <<>>)
        ELSE IF ha.truthy
        THEN Outcome(TRUE, FALSE, <<tabsUpdate(details.tabId, haUrlOnError(OrEmpty(code), state))>>)
        ELSE Outcome(TRUE, FALSE,
                     badgeCallsOnError(code)
                        \o <<tabsUpdate(details.tabId, captureUrlOnError(urlObj, code))>>)

\* The chrome.webNavigation.onErrorOccurred listener: the same with
\* details.url possibly absent, and its own capture page.
onErrorOccurredListener(details) ==
    LET urlObj == NewURL(details.url)
        code == searchParamsGet(urlObj.searchParams, P_CODE)
        state == searchParamsGet(urlObj.searchParams, P_STATE)
        ha == isHomeAssistantFlow(state)
    IN  IF ~(Truthy(details.url) /\ startsWith(details.url, IOS_REDIRECT_PREFIX))
        THEN Outcome(FALSE, FALSE, <<>>)
        ELSE IF ~urlObj.ok THEN Outcome(TRUE, TRUE, <<>>)
        ELSE IF Truthy(code) /\ ha.threw THEN Outcome(TRUE, TRUE, <<>>)
        ELSE IF Truthy(code) /\ ha.truthy
        THEN Outcome(TRUE, FALSE, <<tabsUpdate(details.tabId, haUrlOnError(code, state))>>)
        ELSE Outcome(TRUE, FALSE,
                     badgeCallsOnError(code)
                        \o <<tabsUpdate(details.tabId, captureUrlOnError(urlObj, code))>>)

(***************************************************************************)
(* The events the browser delivers                                         *)
(***************************************************************************)

\* The second redirect prefix the specification lists (the Android scheme).
\* background.js does not mention it.
\* msauth://com.interrait.mymazda
ANDROID_REDIRECT_PREFIX ==
    <<"m", "s", "a", "u", "t", "h", ":", "/", "/", "c", "o", "m", ".", "i", "n", "t", "e", "r",
      "r", "a", "i", "t", ".", "m", "y", "m", "a", "z", "d", "a">>

\* code and a state whose payload is {"flow_id":"x"}:
\*   msauth.com.mazdausa.mazdaiphone://auth?code=ABC123&state=hdr.eyJmbG93X2lkIjoieCJ9.sig
U_HA ==
    IOS_REDIRECT_PREFIX \o
    <<"?", "c", "o", "d", "e", "=", "A", "B", "C", "1", "2", "3", "&", "s", "t", "a", "t", "e",
     "=", "h", "d", "r", ".", "e", "y", "J", "m", "b", "G", "9", "3", "X", "2", "l", "k", "I",
     "j", "o", "i", "e", "C", "J", "9", ".", "s", "i", "g">>

\* an escaped code ("A&b= c") and a padded payload {"flow_id":"xyz"}:
\*   msauth.com.mazdausa.mazdaiphone://auth?code=A%26b%3D+c&state=h.eyJmbG93X2lkIjoieHl6In0%3D.s
U_HA_ENC ==
    IOS_REDIRECT_PREFIX \o
    <<"?", "c", "o", "d", "e", "=", "A", "%", "2", "6", "b", "%", "3", "D", "+", "c", "&", "s",
     "t", "a", "t", "e", "=", "h", ".", "e", "y", "J", "m", "b", "G", "9", "3", "X", "2", "l",
     "k", "I", "j", "o", "i", "e", "H", "l", "6", "I", "n", "0", "%", "3", "D", ".", "s">>

\* code, no state:
\*   msauth.com.mazdausa.mazdaiphone://auth?code=ABC123
U_CODE ==
    IOS_REDIRECT_PREFIX \o
    <<"?", "c", "o", "d", "e", "=", "A", "B", "C", "1", "2", "3">>

\* code and a state that is no token:
\*   msauth.com.mazdausa.mazdaiphone://auth?code=ABC123&state=xyz
U_CODE_STATE ==
    IOS_REDIRECT_PREFIX \o
    <<"?", "c", "o", "d", "e", "=", "A", "B", "C", "1", "2", "3", "&", "s", "t", "a", "t", "e",
     "=", "x", "y", "z">>

\* an upstream OAuth error, no code:
\*   msauth.com.mazdausa.mazdaiphone://auth?error=access_denied&error_description=User%20cancelled
U_ERR ==
    IOS_REDIRECT_PREFIX \o
    <<"?", "e", "r", "r", "o", "r", "=", "a", "c", "c", "e", "s", "s", "_", "d", "e", "n", "i",
     "e", "d", "&", "e", "r", "r", "o", "r", "_", "d", "e", "s", "c", "r", "i", "p", "t", "i",
     "o", "n", "=", "U", "s", "e", "r", "%", "2", "0", "c", "a", "n", "c", "e", "l", "l", "e",
     "d">>

\* an empty code and a Home Assistant state:
\*   msauth.com.mazdausa.mazdaiphone://auth?code=&state=hdr.eyJmbG93X2lkIjoieCJ9.sig
U_NOCODE_HA ==
    IOS_REDIRECT_PREFIX \o
    <<"?", "c", "o", "d", "e", "=", "&", "s", "t", "a", "t", "e", "=", "h", "d", "r", ".", "e",
     "y", "J", "m", "b", "G", "9", "3", "X", "2", "l", "k", "I", "j", "o", "i", "e", "C", "J",
     "9", ".", "s", "i", "g">>

\* no code at all and a Home Assistant state:
\*   msauth.com.mazdausa.mazdaiphone://auth?state=hdr.eyJmbG93X2lkIjoieCJ9.sig
U_STATE_HA ==
    IOS_REDIRECT_PREFIX \o
    <<"?", "s", "t", "a", "t", "e", "=", "h", "d", "r", ".", "e", "y", "J", "m", "b", "G",
     "9", "3", "X", "2", "l", "k", "I", "j", "o", "i", "e", "C", "J", "9", ".", "s", "i", "g">>

\* code and a state whose base64url payload {"flow_id":"<<?"} holds "_":
\*   msauth.com.mazdausa.mazdaiphone://auth?code=ABC123&state=h.eyJmbG93X2lkIjoiPDw_In0.s
U_B64URL ==
    IOS_REDIRECT_PREFIX \o
    <<"?", "c", "o", "d", "e", "=", "A", "B", "C", "1", "2", "3", "&", "s", "t", "a", "t", "e",
     "=", "h", ".", "e", "y", "J", "m", "b", "G", "9", "3", "X", "2", "l", "k", "I", "j", "o",
     "i", "P", "D", "w", "_", "I", "n", "0", ".", "s">>

\* the recognised prefix, then a port that is no number:
\*   msauth.com.mazdausa.mazdaiphone://auth:x?code=ABC123
U_BAD_PORT ==
    IOS_REDIRECT_PREFIX \o
    <<":", "x", "?", "c", "o", "d", "e", "=", "A", "B", "C", "1", "2", "3">>

\* the Android redirect URI:
\*   msauth://com.interrait.mymazda?code=ABC123&state=hdr.eyJmbG93X2lkIjoieCJ9.sig
U_ANDROID ==
    ANDROID_REDIRECT_PREFIX \o
    <<"?", "c", "o", "d", "e", "=", "A", "B", "C", "1", "2", "3", "&", "s", "t", "a", "t", "e",
     "=", "h", "d", "r", ".", "e", "y", "J", "m", "b", "G", "9", "3", "X", "2", "l", "k", "I",
     "j", "o", "i", "e", "C", "J", "9", ".", "s", "i", "g">>

\* an unrelated navigation:
\*   https://example.com/?code=ABC123
U_OTHER ==
    <<"h", "t", "t", "p", "s", ":", "/", "/", "e", "x", "a", "m", "p", "l", "e", ".", "c", "o",
      "m", "/", "?", "c", "o", "d", "e", "=", "A", "B", "C", "1", "2", "3">>

\* the iOS prefix in another case:
\*   Msauth.com.mazdausa.mazdaiphone://auth?code=ABC123
U_UPPER ==
    <<"M", "s", "a", "u", "t", "h", ".", "c", "o", "m", ".", "m", "a", "z", "d", "a", "u", "s",
      "a", ".", "m", "a", "z", "d", "a", "i", "p", "h", "o", "n", "e", ":", "/", "/", "a", "u",
      "t", "h", "?", "c", "o", "d", "e", "=", "A", "B", "C", "1", "2", "3">>

RedirectURLs ==
    {U_HA, U_HA_ENC, U_CODE, U_CODE_STATE, U_ERR, U_NOCODE_HA, U_STATE_HA,
     U_B64URL, U_BAD_PORT, U_ANDROID, U_OTHER, U_UPPER}

\* The tabs of the browser.
NumTabs == 2

Tabs == 1..NumTabs

\* onBeforeNavigate always carries a URL; onErrorOccurred may come without.
NavigationDetails == [url : RedirectURLs, tabId : Tabs]

ErrorDetails == [url : RedirectURLs \cup {Null}, tabId : Tabs]

(***************************************************************************)
(* The states a classification is tried on                                 *)
(***************************************************************************)

\* {"flow_id":"x"}:
\*   eyJmbG93X2lkIjoieCJ9
B_FLOW ==
    <<"e", "y", "J", "m", "b", "G", "9", "3", "X", "2", "l", "k", "I", "j", "o", "i", "e", "C",
      "J", "9">>

\* {"flow_id":"xyz"}, padded:
\*   eyJmbG93X2lkIjoieHl6In0=
B_FLOW_PADDED ==
    <<"e", "y", "J", "m", "b", "G", "9", "3", "X", "2", "l", "k", "I", "j", "o", "i", "e", "H",
      "l", "6", "I", "n", "0", "=">>

\* {"flow_id":"xyz"}, padding left out:
\*   eyJmbG93X2lkIjoieHl6In0
B_FLOW_UNPADDED ==
    <<"e", "y", "J", "m", "b", "G", "9", "3", "X", "2", "l", "k", "I", "j", "o", "i", "e", "H",
      "l", "6", "I", "n", "0">>

\* {"flow_id":"<<?"} in base64url, which writes "_":
\*   eyJmbG93X2lkIjoiPDw_In0
B_FLOW_UNDERSCORE ==
    <<"e", "y", "J", "m", "b", "G", "9", "3", "X", "2", "l", "k", "I", "j", "o", "i", "P", "D",
      "w", "_", "I", "n", "0">>

\* {"flow_id":"<<?"} in base64, which writes "/":
\*   eyJmbG93X2lkIjoiPDw/In0
B_FLOW_SLASH ==
    <<"e", "y", "J", "m", "b", "G", "9", "3", "X", "2", "l", "k", "I", "j", "o", "i", "P", "D",
      "w", "/", "I", "n", "0">>

\* {"flow_id":"x>>>"} in base64url, which writes "-":
\*   eyJmbG93X2lkIjoieD4-PiJ9
B_FLOW_MINUS ==
    <<"e", "y", "J", "m", "b", "G", "9", "3", "X", "2", "l", "k", "I", "j", "o", "i", "e", "D",
      "4", "-", "P", "i", "J", "9">>

\*  {"flow_id" : "x"} between spaces:
\*   IHsiZmxvd19pZCIgOiAieCJ9IA
B_FLOW_SPACED ==
    <<"I", "H", "s", "i", "Z", "m", "x", "v", "d", "1", "9", "p", "Z", "C", "I", "g", "O", "i",
      "A", "i", "e", "C", "J", "9", "I", "A">>

\* {"flow_id":"x","flow_id":1}:
\*   eyJmbG93X2lkIjoieCIsImZsb3dfaWQiOjF9
B_FLOW_TWICE ==
    <<"e", "y", "J", "m", "b", "G", "9", "3", "X", "2", "l", "k", "I", "j", "o", "i", "e", "C",
      "I", "s", "I", "m", "Z", "s", "b", "3", "d", "f", "a", "W", "Q", "i", "O", "j", "F", "9">>

\* {"flow_id":"x\n"}:
\*   eyJmbG93X2lkIjoieFxuIn0
B_FLOW_ESCAPED ==
    <<"e", "y", "J", "m", "b", "G", "9", "3", "X", "2", "l", "k", "I", "j", "o", "i", "e", "F",
      "x", "u", "I", "n", "0">>

\* {"flow_id":1}:
\*   eyJmbG93X2lkIjoxfQ
B_FLOW_NUMBER ==
    <<"e", "y", "J", "m", "b", "G", "9", "3", "X", "2", "l", "k", "I", "j", "o", "x", "f", "Q">>

\* {"flow_id":null}:
\*   eyJmbG93X2lkIjpudWxsfQ
B_FLOW_NULL ==
    <<"e", "y", "J", "m", "b", "G", "9", "3", "X", "2", "l", "k", "I", "j", "p", "u", "d", "W",
      "x", "s", "f", "Q">>

\* {"flow_id":["x"]}:
\*   eyJmbG93X2lkIjpbIngiXX0
B_FLOW_ARRAY ==
    <<"e", "y", "J", "m", "b", "G", "9", "3", "X", "2", "l", "k", "I", "j", "p", "b", "I", "n",
      "g", "i", "X", "X", "0">>

\* {"a":{"flow_id":"x"}}:
\*   eyJhIjp7ImZsb3dfaWQiOiJ4In19
B_FLOW_NESTED ==
    <<"e", "y", "J", "h", "I", "j", "p", "7", "I", "m", "Z", "s", "b", "3", "d", "f", "a", "W",
      "Q", "i", "O", "i", "J", "4", "I", "n", "1", "9">>

\* {"a":1}:
\*   eyJhIjoxfQ
B_OTHER_KEY ==
    <<"e", "y", "J", "h", "I", "j", "o", "x", "f", "Q">>

\* {}:
\*   e30
B_EMPTY_OBJECT ==
    <<"e", "3", "0">>

\* null:
\*   bnVsbA
B_NULL ==
    <<"b", "n", "V", "s", "b", "A">>

\* 0:
\*   MA
B_ZERO ==
    <<"M", "A">>

\* 7:
\*   Nw
B_SEVEN ==
    <<"N", "w">>

\* [1]:
\*   WzFd
B_ARRAY ==
    <<"W", "z", "F", "d">>

\* "s":
\*   InMi
B_STRING ==
    <<"I", "n", "M", "i">>

\* "":
\*   IiI
B_EMPTY_STRING ==
    <<"I", "i", "I">>

\* false:
\*   ZmFsc2U
B_FALSE ==
    <<"Z", "m", "F", "s", "c", "2", "U">>

\* true:
\*   dHJ1ZQ
B_TRUE ==
    <<"d", "H", "J", "1", "Z", "Q">>

\* {"flow_id":"x"  (cut short):
\*   eyJmbG93X2lkIjoieCI
B_TRUNCATED ==
    <<"e", "y", "J", "m", "b", "G", "9", "3", "X", "2", "l", "k", "I", "j", "o", "i", "e", "C",
      "I">>

\* three zero bytes:
\*   AAAA
B_BINARY ==
    <<"A", "A", "A", "A">>

\* one character: no base64:
\*   e
B_LENGTH_ONE ==
    <<"e">>

\* no base64 characters:
\*   !!!!
B_NOT_BASE64 ==
    <<"!", "!", "!", "!">>

\* the empty segment:
\*   
B_EMPTY ==
    <<>>

MiddleSegments ==
    {B_FLOW, B_FLOW_PADDED, B_FLOW_UNPADDED, B_FLOW_UNDERSCORE, B_FLOW_SLASH,
     B_FLOW_MINUS, B_FLOW_SPACED, B_FLOW_TWICE, B_FLOW_ESCAPED, B_FLOW_NUMBER,
     B_FLOW_NULL, B_FLOW_ARRAY, B_FLOW_NESTED, B_OTHER_KEY, B_EMPTY_OBJECT,
     B_NULL, B_ZERO, B_SEVEN, B_ARRAY, B_STRING,
     B_EMPTY_STRING, B_FALSE, B_TRUE, B_TRUNCATED, B_BINARY,
     B_LENGTH_ONE, B_NOT_BASE64, B_EMPTY}

HeaderSegments == {<<>>, <<"h", "d", "r">>}

SignatureSegments == {<<>>, <<"s", "i", "g">>}

\* The most segments a state has.
MaxSegments == 4

\* h.b followed by n - 2 times .s (b alone when n = 1).
RECURSIVE Token(_, _, _, _)
Token(h, b, sig, n) ==
    IF n = 1 THEN b
    ELSE IF n = 2 THEN h \o <<".">> \o b
    ELSE Token(h, b, sig, n - 1) \o <<".">> \o sig

StateInputs ==
    {Null, <<>>}
        \cup {Token(h, b, sig, n) : h \in HeaderSegments, b \in MiddleSegments,
                                    sig \in SignatureSegments, n \in 1..MaxSegments}

(***************************************************************************)
(* State                                                                   *)
(***************************************************************************)

VARIABLES
    tabUrl,      \* per tab, the URL of the last chrome.tabs.update (Null: none yet)
    badgeText,   \* the badge text of the toolbar icon (empty: no badge)
    badgeColor,  \* the badge background colour (Null: never set)
    last,        \* the last event delivered and what its listener did
    cls,         \* the state under classification and the result
    repeated,    \* the last event was the very event delivered before it
    batch,       \* the events the browser has to deliver
    pending,     \* those of them no listener has run for yet
    inflight,    \* calls made by listeners that the browser has not carried out yet
    applied,     \* the calls the browser carried out, in order
    dropped      \* the calls that failed in the browser, in order

asyncVars == <<batch, pending, inflight, applied, dropped>>

vars == <<tabUrl, badgeText, badgeColor, last, cls, repeated, asyncVars>>

Pending == [value |-> "pending", threw |-> FALSE, truthy |-> FALSE]

NoEvent ==
    [url |-> Null, threw |-> FALSE, tabId |-> 0, matched |-> FALSE, calls |-> <<>>,
     entry |-> "none"]

\* Variant of TabUrlAfter: a tab update navigates every tab.
RECURSIVE TabUrlAfterEveryTab(_, _)
TabUrlAfterEveryTab(calls, tabs) ==
    IF calls = <<>> THEN tabs
    ELSE TabUrlAfterEveryTab(Tail(calls),
                             IF calls[1].api = "tabs.update"
                             THEN [t \in DOMAIN tabs |-> calls[1].arg]
                             ELSE tabs)

\* The browser's state after the calls, applied in the order they were made.
RECURSIVE TabUrlAfter(_, _)
TabUrlAfter(calls, tabs) ==
    IF calls = <<>> THEN tabs
    ELSE TabUrlAfter(Tail(calls),
                     IF calls[1].api = "tabs.update"
                     THEN [tabs EXCEPT ![calls[1].tabId] = calls[1].arg]
                     ELSE tabs)

\* Variant of BadgeAfter: a write is added to what the badge shows.
RECURSIVE BadgeAfterAccumulate(_, _, _)
BadgeAfterAccumulate(calls, api, old) ==
    IF calls = <<>> THEN old
    ELSE BadgeAfterAccumulate(Tail(calls), api,
                              IF calls[1].api = api THEN old \o calls[1].arg ELSE old)

RECURSIVE BadgeAfter(_, _, _)
BadgeAfter(calls, api, old) ==
    IF calls = <<>> THEN old
    ELSE BadgeAfter(Tail(calls), api, IF calls[1].api = api THEN calls[1].arg ELSE old)

\* Nothing is handed over to the browser and nothing waits for a listener.
AsyncIdle ==
    /\ batch = {}
    /\ pending = {}
    /\ inflight = <<>>
    /\ applied = <<>>
    /\ dropped = <<>>

Init ==
    /\ tabUrl = [t \in Tabs |-> Null]
    /\ badgeText = <<>>
    /\ badgeColor = Null
    /\ last = NoEvent
    /\ cls = [state |-> Null, result |-> Pending]
    /\ repeated = FALSE
    /\ AsyncIdle

\* The browser delivers a navigation attempt: the listener runs to its end and
\* the browser carries out the calls it made.
OnBeforeNavigate ==
    \E d \in NavigationDetails :
        \E out \in {onBeforeNavigateListener(d)} :
            /\ tabUrl' = TabUrlAfter(out.calls, tabUrl)
            /\ badgeText' = BadgeAfter(out.calls, "action.setBadgeText", badgeText)
            /\ badgeColor' = BadgeAfter(out.calls, "action.setBadgeBackgroundColor", badgeColor)
            /\ last' = [url |-> d.url, threw |-> out.threw, tabId |-> d.tabId,
                        matched |-> out.matched, calls |-> out.calls,
                        entry |-> "onBeforeNavigate"]
            /\ repeated' = (/\ last.entry = "onBeforeNavigate"
                            /\ last.url = d.url
                            /\ last.tabId = d.tabId)
            /\ UNCHANGED <<cls, asyncVars>>

\* The browser delivers a navigation error.
OnErrorOccurred ==
    \E d \in ErrorDetails :
        \E out \in {onErrorOccurredListener(d)} :
            /\ tabUrl' = TabUrlAfter(out.calls, tabUrl)
            /\ badgeText' = BadgeAfter(out.calls, "action.setBadgeText", badgeText)
            /\ badgeColor' = BadgeAfter(out.calls, "action.setBadgeBackgroundColor", badgeColor)
            /\ last' = [url |-> d.url, threw |-> out.threw, tabId |-> d.tabId,
                        matched |-> out.matched, calls |-> out.calls,
                        entry |-> "onErrorOccurred"]
            /\ repeated' = (/\ last.entry = "onErrorOccurred"
                            /\ last.url = d.url
                            /\ last.tabId = d.tabId)
            /\ UNCHANGED <<cls, asyncVars>>

Next == OnBeforeNavigate \/ OnErrorOccurred

Spec == Init /\ [][Next]_vars

\* The classifier alone, on every state of StateInputs.
InitClassify ==
    /\ tabUrl = [t \in Tabs |-> Null]
    /\ badgeText = <<>>
    /\ badgeColor = Null
    /\ last = NoEvent
    /\ cls \in [state : StateInputs, result : {Pending}]
    /\ repeated = FALSE
    /\ AsyncIdle

Classify ==
    /\ cls.result = Pending
    /\ cls' = [cls EXCEPT !.result = isHomeAssistantFlow(cls.state)]
    /\ UNCHANGED <<tabUrl, badgeText, badgeColor, last, repeated, asyncVars>>

NextClassify == Classify

SpecClassify == InitClassify /\ [][NextClassify]_vars

(***************************************************************************)
(* The listeners and the browser apart                                     *)
(*                                                                         *)
(* Both listeners are async functions without an await: a listener runs   *)
(* to its end before another one starts.  chrome.tabs.update and the      *)
(* chrome.action calls return promises that nothing awaits or catches:    *)
(* the browser carries a call out, or fails it, after the listener made   *)
(* it, in the order the calls were made.                                   *)
(***************************************************************************)

\* The events the browser may have to deliver.
Events ==
    [url : RedirectURLs, tabId : Tabs, entry : {"onBeforeNavigate"}]
        \cup [url : RedirectURLs \cup {Null}, tabId : Tabs, entry : {"onErrorOccurred"}]

\* One event, or two different events.
Batches == {{e1, e2} : e1 \in Events, e2 \in Events}

InitAsync ==
    /\ tabUrl = [t \in Tabs |-> Null]
    /\ badgeText = <<>>
    /\ badgeColor = Null
    /\ last = NoEvent
    /\ cls = [state |-> Null, result |-> Pending]
    /\ repeated = FALSE
    /\ batch \in Batches
    /\ pending = batch
    /\ inflight = <<>>
    /\ applied = <<>>
    /\ dropped = <<>>

\* The onBeforeNavigate listener runs for a waiting event: its calls are
\* handed to the browser.
HandleBeforeNavigate ==
    \E d \in NavigationDetails :
        \E out \in {onBeforeNavigateListener(d)} :
            /\ [url |-> d.url, tabId |-> d.tabId, entry |-> "onBeforeNavigate"] \in pending
            /\ pending' = pending \ {[url |-> d.url, tabId |-> d.tabId, entry |-> "onBeforeNavigate"]}
            /\ inflight' = inflight \o out.calls
            /\ last' = [url |-> d.url, threw |-> out.threw, tabId |-> d.tabId,
                        matched |-> out.matched, calls |-> out.calls,
                        entry |-> "onBeforeNavigate"]
            /\ UNCHANGED <<tabUrl, badgeText, badgeColor, cls, repeated, batch, applied,
                           dropped>>

\* The onErrorOccurred listener runs for a waiting event.
HandleErrorOccurred ==
    \E d \in ErrorDetails :
        \E out \in {onErrorOccurredListener(d)} :
            /\ [url |-> d.url, tabId |-> d.tabId, entry |-> "onErrorOccurred"] \in pending
            /\ pending' = pending \ {[url |-> d.url, tabId |-> d.tabId, entry |-> "onErrorOccurred"]}
            /\ inflight' = inflight \o out.calls
            /\ last' = [url |-> d.url, threw |-> out.threw, tabId |-> d.tabId,
                        matched |-> out.matched, calls |-> out.calls,
                        entry |-> "onErrorOccurred"]
            /\ UNCHANGED <<tabUrl, badgeText, badgeColor, cls, repeated, batch, applied,
                           dropped>>

\* The browser carries out the oldest call.
BrowserApply ==
    /\ inflight # <<>>
    /\ \E c \in {Head(inflight)} :
          /\ tabUrl' = TabUrlAfter(<<c>>, tabUrl)
          /\ badgeText' = BadgeAfter(<<c>>, "action.setBadgeText", badgeText)
          /\ badgeColor' = BadgeAfter(<<c>>, "action.setBadgeBackgroundColor", badgeColor)
          /\ applied' = Append(applied, c)
    /\ inflight' = Tail(inflight)
    /\ UNCHANGED <<last, cls, repeated, batch, pending, dropped>>

\* The oldest call fails in the browser (the tab is gone, say): its promise
\* rejects, and no code of the extension runs on that.
BrowserFail ==
    /\ inflight # <<>>
    /\ dropped' = Append(dropped, Head(inflight))
    /\ inflight' = Tail(inflight)
    /\ UNCHANGED <<tabUrl, badgeText, badgeColor, last, cls, repeated, batch, pending, applied>>

NextAsync == HandleBeforeNavigate \/ HandleErrorOccurred \/ BrowserApply \/ BrowserFail

SpecAsync == InitAsync /\ [][NextAsync]_vars

(***************************************************************************)
(* Reading an event and what its listener did                              *)
(***************************************************************************)

\* s begins with p (the two are compared as whole sequences).
HasPrefix(s, p) == Len(s) >= Len(p) /\ SubSeq(s, 1, Len(p)) = p

\* The URL begins with one of the two redirect prefixes of the specification.
HasRedirectPrefix(url) ==
    HasPrefix(url, IOS_REDIRECT_PREFIX) \/ HasPrefix(url, ANDROID_REDIRECT_PREFIX)

\* The last event passed the listener's prefix test and its URL parses.
Parseable == last.matched /\ NewURL(last.url).ok

\* The query parameters of the last event's URL.
EventParams == IF Parseable THEN NewURL(last.url).searchParams ELSE <<>>

EventCode == searchParamsGet(EventParams, P_CODE)

EventState == searchParamsGet(EventParams, P_STATE)

EventError == searchParamsGet(EventParams, P_ERROR)

EventErrorDescription == searchParamsGet(EventParams, P_ERROR_DESCRIPTION)

\* The tab navigations and the badge writes of the last listener run.
Navigations == SelectSeq(last.calls, LAMBDA c : c.api = "tabs.update")

BadgeWrites == SelectSeq(last.calls, LAMBDA c : c.api # "tabs.update")

\* A target URL up to its "?", and the parameters after it as the page that
\* is navigated to reads them.
TargetBase(u) == SubSeq(u, 1, IndexOfAny(u, {"?"}, 1) - 1)

TargetParams(u) == parseQuery(SubSeq(u, IndexOfAny(u, {"?"}, 1) + 1, Len(u)))

CapturePageUrl == runtimeGetURL(CAPTURE_PAGE)

\* The last listener run made exactly one navigation, of the originating tab,
\* to a URL on base, and the tab is there.
NavigatedTo(base) ==
    /\ Len(Navigations) = 1
    /\ Navigations[1].tabId = last.tabId
    /\ TargetBase(Navigations[1].arg) = base
    /\ tabUrl[last.tabId] = Navigations[1].arg

Target == Navigations[1].arg

CheckMark == <<"U+2713">>

Green == <<"#", "4", "C", "A", "F", "5", "0">>

\* A state has the shape A.B.C and B, base64url-decoded, is a JSON object with
\* a string flow_id.
IsHomeAssistantToken(st) ==
    /\ Truthy(st)
    /\ Len(split(st, ".")) = 3
    /\ LET decoded == base64urlDecode(split(st, ".")[2])
           payload == JSONparse(decoded.v)
       IN  /\ decoded.ok
           /\ payload.ok
           /\ payload.v.t = "object"
           /\ payload.v.flow_id = "string"

(***************************************************************************)
(* C1                                                                      *)
(***************************************************************************)

\* C1: an event on either listener whose URL starts with neither redirect
\* prefix (an onErrorOccurred event without URL included) makes no browser
\* call: every tab target and the badge stay as they were.
C1_UnrecognizedIgnored ==
    [][(last'.entry # "none" /\ ~HasRedirectPrefix(last'.url))
          => /\ last'.calls = <<>>
             /\ ~last'.threw
             /\ UNCHANGED <<tabUrl, badgeText, badgeColor>>]_vars

\* An error event without URL arrived after a capture: badge and tab are set.
C1_Witness ==
    /\ last.entry = "onErrorOccurred"
    /\ last.url = Null
    /\ badgeText = CheckMark
    /\ tabUrl[last.tabId] # Null

(***************************************************************************)
(* C2                                                                      *)
(***************************************************************************)

\* C2: a listener takes an event as a redirect exactly when its URL starts
\* with msauth.com.mazdausa.mazdaiphone://auth or msauth://com.interrait.mymazda,
\* so that an Android redirect is dispatched like an iOS one.
C2_BothPrefixesRecognized ==
    last.entry # "none" => (last.matched <=> HasRedirectPrefix(last.url))

(***************************************************************************)
(* C3                                                                      *)
(***************************************************************************)

\* C3: a recognised event with a non-empty code and a state classified as a
\* Home Assistant flow makes exactly one browser call, on either listener: the
\* originating tab goes to https://my.home-assistant.io/redirect/oauth with
\* code and state as captured; no capture page, no badge write.
C3_HomeAssistantRedirect ==
    (last.matched /\ Truthy(EventCode) /\ isHomeAssistantFlow(EventState).truthy)
        => /\ Len(last.calls) = 1
           /\ NavigatedTo(HA_OAUTH_URL)
           /\ TargetParams(Target)
                = <<[name |-> P_CODE, value |-> EventCode],
                    [name |-> P_STATE, value |-> EventState]>>

\* The error listener sent a tab to Home Assistant with a code that needs
\* escaping.
C3_Witness ==
    /\ last.entry = "onErrorOccurred"
    /\ last.url = U_HA_ENC
    /\ TargetBase(tabUrl[last.tabId]) = HA_OAUTH_URL

(***************************************************************************)
(* C4                                                                      *)
(***************************************************************************)

\* C4: every state A.B.C whose B base64url-decodes ("-" and "_" included,
\* padding optional) to a JSON object with a string flow_id is classified as a
\* Home Assistant flow.
C4_TokenClassified ==
    (cls.result # Pending /\ IsHomeAssistantToken(cls.state)) => cls.result.truthy

(***************************************************************************)
(* C5                                                                      *)
(***************************************************************************)

C6_CodeCaptured ==
    (last.matched /\ Truthy(EventCode) /\ ~isHomeAssistantFlow(EventState).truthy)
        => /\ NavigatedTo(CapturePageUrl)
           /\ searchParamsGet(TargetParams(Target), P_CODE) = EventCode
           /\ BadgeWrites = <<setBadgeText(CheckMark), setBadgeBackgroundColor(Green)>>
           /\ badgeText = CheckMark
           /\ badgeColor = Green

\* A navigation attempt with a code and no state was captured.
C6_Witness ==
    /\ last.entry = "onBeforeNavigate"
    /\ last.url = U_CODE
    /\ badgeColor = Green

(***************************************************************************)
(* C7                                                                      *)
(***************************************************************************)

\* C7: a recognised navigation attempt without code (absent or empty) but with
\* error and error_description sends the originating tab to the capture page
\* with those two values as they were and an empty code, and writes no badge.
C7_ErrorForwarded ==
    (/\ last.entry = "onBeforeNavigate"
     /\ Parseable
     /\ ~Truthy(EventCode)
     /\ EventError # Null
     /\ EventErrorDescription # Null)
        => /\ Len(last.calls) = 1
           /\ NavigatedTo(CapturePageUrl)
           /\ searchParamsGet(TargetParams(Target), P_CODE) = <<>>
           /\ searchParamsGet(TargetParams(Target), P_ERROR) = EventError
           /\ searchParamsGet(TargetParams(Target), P_ERROR_DESCRIPTION)
                = EventErrorDescription

\* The navigation attempt with access_denied was delivered.
C7_Witness ==
    /\ last.entry = "onBeforeNavigate"
    /\ last.url = U_ERR
    /\ tabUrl[last.tabId] # Null
    /\ EventErrorDescription
         = <<"U", "s", "e", "r", " ", "c", "a", "n", "c", "e", "l", "l", "e", "d">>

(***************************************************************************)
(* C8                                                                      *)
(***************************************************************************)

\* C8: a recognised event whose URL does not parse raises no unhandled error
\* and still sends the originating tab to the capture page, every parameter
\* empty.
C8_MalformedStillDispatched ==
    (last.matched /\ ~NewURL(last.url).ok)
        => /\ ~last.threw
           /\ NavigatedTo(CapturePageUrl)
           /\ \A i \in 1..Len(TargetParams(Target)) : TargetParams(Target)[i].value = <<>>

(***************************************************************************)
(* C9                                                                      *)
(***************************************************************************)

\* C9: a recognised event whose URL parses makes exactly one tab navigation,
\* of the originating tab, to the Home Assistant endpoint or to the capture
\* page.
C9_ExactlyOneTarget ==
    Parseable
        => /\ ~last.threw
           /\ NavigatedTo(HA_OAUTH_URL) \/ NavigatedTo(CapturePageUrl)

\* A navigation attempt with a Home Assistant state and an empty code went to
\* the capture page.
C9_Witness ==
    /\ last.entry = "onBeforeNavigate"
    /\ last.url = U_NOCODE_HA
    /\ Len(Navigations) = 1

(***************************************************************************)
(* C10                                                                     *)
(***************************************************************************)

\* C10: the capture page the onErrorOccurred listener navigates to carries
\* code alone (empty when absent), whatever error and error_description the
\* redirect had; the onBeforeNavigate listener forwards both.
C10_ErrorPathCodeOnly ==
    (Parseable /\ Len(Navigations) = 1 /\ TargetBase(Target) = CapturePageUrl)
        => IF last.entry = "onErrorOccurred"
           THEN TargetParams(Target) = <<[name |-> P_CODE, value |-> OrEmpty(EventCode)]>>
           ELSE /\ searchParamsGet(TargetParams(Target), P_ERROR) = OrEmpty(EventError)
                /\ searchParamsGet(TargetParams(Target), P_ERROR_DESCRIPTION)
                     = OrEmpty(EventErrorDescription)

\* The redirect with access_denied came in as a navigation error.
C10_Witness ==
    /\ last.entry = "onErrorOccurred"
    /\ last.url = U_ERR
    /\ EventError # Null
    /\ Len(Navigations) = 1

(***************************************************************************)
(* C11                                                                     *)
(***************************************************************************)

\* C11: whenever a recognised event goes to the capture page, from either
\* listener, the capture page URL carries the state of the redirect.
C11_StateForwarded ==
    (/\ Parseable
     /\ Len(Navigations) = 1
     /\ TargetBase(Target) = CapturePageUrl
     /\ EventState # Null)
        => searchParamsGet(TargetParams(Target), P_STATE) = EventState

(***************************************************************************)
(* C12                                                                     *)
(***************************************************************************)

CallsAlone(e) ==
    IF e.entry = "onBeforeNavigate"
    THEN onBeforeNavigateListener([url |-> e.url, tabId |-> e.tabId]).calls
    ELSE onErrorOccurredListener([url |-> e.url, tabId |-> e.tabId]).calls

\* The URL e's tab is sent to when e is handled alone (Null: nowhere).
TargetAlone(e) ==
    LET navs == SelectSeq(CallsAlone(e), LAMBDA c : c.api = "tabs.update")
    IN  IF navs = <<>> THEN Null ELSE navs[Len(navs)].arg

WritesBadge(e) == \E i \in 1..Len(CallsAlone(e)) : CallsAlone(e)[i].api = "action.setBadgeText"

\* Every listener has run and the browser has dealt with every call.
Quiescent == pending = {} /\ inflight = <<>>

DifferentTabs == \A e1, e2 \in batch : e1 # e2 => e1.tabId # e2.tabId

\* C13: with events of different tabs handled in any order and their calls
\* carried out, a tab has a target only from the event of that tab, and it is
\* the target of that event handled alone; once everything is done and no
\* call failed, every tab is where its event alone sends it and the badge is
\* the check mark on green exactly if some event of the batch writes it: the
\* outcome is the same for every order.
C13_Stateless ==
    DifferentTabs
        => /\ \A t \in Tabs :
                tabUrl[t] # Null
                    => \E e \in batch \ pending : e.tabId = t /\ tabUrl[t] = TargetAlone(e)
           /\ (Quiescent /\ dropped = <<>>)
                => /\ \A e \in batch : tabUrl[e.tabId] = TargetAlone(e)
                   /\ badgeText = IF \E e \in batch : WritesBadge(e) THEN CheckMark ELSE <<>>
                   /\ badgeColor = IF \E e \in batch : WritesBadge(e) THEN Green ELSE Null

\* Two events of two tabs are done: both tabs have a target, not the same
\* one, and the badge was written.
C13_Witness ==
    /\ Cardinality(batch) = 2
    /\ DifferentTabs
    /\ Quiescent
    /\ dropped = <<>>
    /\ \A e \in batch : tabUrl[e.tabId] # Null
    /\ \E e1, e2 \in batch : tabUrl[e1.tabId] # tabUrl[e2.tabId]
    /\ badgeText = CheckMark

(***************************************************************************)
(* C14                                                                     *)
(***************************************************************************)

\* What the listener of the other entry point does with the last event.
OtherOutcome ==
    IF last.entry = "onBeforeNavigate"
    THEN onErrorOccurredListener([url |-> last.url, tabId |-> last.tabId])
    ELSE onBeforeNavigateListener([url |-> last.url, tabId |-> last.tabId])

\* C14: for every URL the two listeners agree on whether the event is left
\* alone, on whether the run ends in an exception, on the kind of target
\* (Home Assistant endpoint or capture page), on the code forwarded and on
\* the badge writes; the Home Assistant URL is the same from both.
C14_SameDecision ==
    (last.entry # "none" /\ last.url # Null)
        => LET other == OtherOutcome
               theirs == SelectSeq(other.calls, LAMBDA c : c.api = "tabs.update")
           IN  /\ other.matched = last.matched
               /\ other.threw = last.threw
               /\ Len(theirs) = Len(Navigations)
               /\ SelectSeq(other.calls, LAMBDA c : c.api # "tabs.update") = BadgeWrites
               /\ Len(Navigations) = 1
                    => /\ theirs[1].tabId = Navigations[1].tabId
                       /\ TargetBase(theirs[1].arg) = TargetBase(Target)
                       /\ searchParamsGet(TargetParams(theirs[1].arg), P_CODE)
                            = searchParamsGet(TargetParams(Target), P_CODE)
                       /\ TargetBase(Target) = HA_OAUTH_URL => theirs[1].arg = Target

\* The error listener captured a code that came with a state that is no
\* Home Assistant token.
C14_Witness ==
    /\ last.entry = "onErrorOccurred"
    /\ last.url = U_CODE_STATE
    /\ Len(BadgeWrites) = 2
    /\ TargetBase(tabUrl[last.tabId]) = CapturePageUrl

(***************************************************************************)
(* C15                                                                     *)
(***************************************************************************)

\* The terminal states of one listener run.
Ignored == ~last.matched /\ ~last.threw /\ last.calls = <<>>

Dispatched == last.matched /\ ~last.threw /\ Len(Navigations) = 1

AtMostOneBadgePair ==
    \/ BadgeWrites = <<>>
    \/ /\ Len(BadgeWrites) = 2
       /\ BadgeWrites[1].api = "action.setBadgeText"
       /\ BadgeWrites[2].api = "action.setBadgeBackgroundColor"

\* The number of calls the events of S make when each is handled alone.
RECURSIVE CallCount(_)
CallCount(S) ==
    IF S = {} THEN 0
    ELSE LET e == CHOOSE x \in S : TRUE
         IN  Len(CallsAlone(e)) + CallCount(S \ {e})

\* Every call of a handled event is in flight, carried out or failed, once:
\* a failed call is not made again and nothing is made in its place.
NoRetry == Len(inflight) + Len(applied) + Len(dropped) = CallCount(batch \ pending)

\* The bounds of C15 without its terminal states.
BoundedCalls ==
    last.entry # "none" => Len(Navigations) <= 1 /\ AtMostOneBadgePair /\ NoRetry

\* C15: every listener run ends Dispatched or Ignored, with at most one tab
\* navigation and at most one badge text/colour pair, and a call that fails
\* is neither retried nor followed by anything more for the event.
C15_TerminalBounded ==
    last.entry # "none" => (Dispatched \/ Ignored) /\ BoundedCalls

(***************************************************************************)
(* C16                                                                     *)
(***************************************************************************)

\* C16: a recognised event with a Home Assistant state and a code that is
\* absent or empty makes one navigation, to the capture page (with the state
\* on the onBeforeNavigate path), and no badge write; nothing goes to the
\* Home Assistant endpoint.
C16_NoCodeStaysLocal ==
    (Parseable /\ ~Truthy(EventCode) /\ IsHomeAssistantToken(EventState))
        => /\ NavigatedTo(CapturePageUrl)
           /\ last.calls = Navigations
           /\ \A i \in 1..Len(last.calls) : TargetBase(last.calls[i].arg) # HA_OAUTH_URL
           /\ searchParamsGet(TargetParams(Target), P_CODE) = <<>>
           /\ last.entry = "onBeforeNavigate"
                => searchParamsGet(TargetParams(Target), P_STATE) = EventState

\* An error event with a Home Assistant state and no code went to the capture
\* page.
C16_Witness ==
    /\ last.entry = "onErrorOccurred"
    /\ last.url = U_STATE_HA
    /\ EventCode = Null
    /\ IsHomeAssistantToken(EventState)
    /\ TargetBase(tabUrl[last.tabId]) = CapturePageUrl
    /\ badgeText = <<>>

(***************************************************************************)
(* C17                                                                     *)
(***************************************************************************)

\* u is a URL on the Home Assistant endpoint.
ToHomeAssistant(u) == u # Null /\ TargetBase(u) = HA_OAUTH_URL

\* C17: whatever events came before, a tab that is at the Home Assistant
\* endpoint carries a non-empty code and a state of three segments whose
\* middle one decodes to JSON with a string flow_id; and a listener run calls
\* chrome.tabs.update with that endpoint only for a recognised event with a
\* non-empty code and such a state, which are the code and the state sent.
C17_OnlyHomeAssistantFlows ==
    /\ \A t \in Tabs :
         ToHomeAssistant(tabUrl[t])
            => /\ Truthy(searchParamsGet(TargetParams(tabUrl[t]), P_CODE))
               /\ IsHomeAssistantToken(searchParamsGet(TargetParams(tabUrl[t]), P_STATE))
    /\ \A i \in 1..Len(last.calls) :
         (last.calls[i].api = "tabs.update" /\ ToHomeAssistant(last.calls[i].arg))
            => /\ last.matched
               /\ HasRedirectPrefix(last.url)
               /\ Truthy(EventCode)
               /\ IsHomeAssistantToken(EventState)
               /\ searchParamsGet(TargetParams(last.calls[i].arg), P_CODE) = EventCode
               /\ searchParamsGet(TargetParams(last.calls[i].arg), P_STATE) = EventState

\* One tab is at the Home Assistant endpoint from an earlier event, and the
\* last event, a code with a state that is no token, sent the other tab to
\* the capture page.
C17_Witness ==
    /\ last.url = U_CODE_STATE
    /\ TargetBase(tabUrl[last.tabId]) = CapturePageUrl
    /\ \E t \in Tabs : t # last.tabId /\ ToHomeAssistant(tabUrl[t])

(***************************************************************************)
(* C18                                                                     *)
(***************************************************************************)

BadgeUnsetOrCheck ==
    \/ badgeText = <<>> /\ badgeColor = Null
    \/ badgeText = CheckMark /\ badgeColor = Green

\* The last listener run wrote the badge only for a recognised event with a
\* non-empty code that it sent to the capture page.
WriteOnlyOnCapture ==
    BadgeWrites # <<>>
        => Parseable /\ Truthy(EventCode) /\ NavigatedTo(CapturePageUrl)

\* A step changes the badge only by a badge write of the event it handles,
\* and leaves a badge that is set as it is.
BadgeKept ==
    /\ <<badgeText, badgeColor>>' # <<badgeText, badgeColor>>
         => \E i \in 1..Len(last'.calls) : last'.calls[i].api # "tabs.update"
    /\ badgeText # <<>> => UNCHANGED <<badgeText, badgeColor>>

SameRedirectTwice(e1, e2) ==
    /\ e1.entry = "onBeforeNavigate"
    /\ e2.entry = "onErrorOccurred"
    /\ e1.url = e2.url
    /\ e1.tabId = e2.tabId
    /\ TargetAlone(e1) # Null
    /\ TargetAlone(e2) # Null

\* C19: when one recognised redirect of one tab came through both entry
\* points, both listeners have run and every call was carried out, the tab is
\* at the target of the one listener and at the target of the other:
\* whichever tab update is carried out last, the tab ends at the same URL.
C19_OrderIndependent ==
    \A e1, e2 \in batch :
        (SameRedirectTwice(e1, e2) /\ Quiescent /\ dropped = <<>>)
            => tabUrl[e1.tabId] = TargetAlone(e1) /\ tabUrl[e1.tabId] = TargetAlone(e2)

====
